---- MODULE Spec2Model ----
(***************************************************************************)
(* The compositing node graph of yocto-canvas: src/src/composite/mod.rs    *)
(* (format_name, the Node trait, Port, NodeGraph) and                      *)
(* src/src/composite/nodes.rs (the impl_node! macro and MixRgba); the      *)
(* hand-written AlphaOver node of src/src/composite.rs.                    *)
(*                                                                         *)
(* A String is a TLA+ string; an Option<T> is a sequence of length at most *)
(* one (<<>> is None, <<x>> is Some(x)); a Vec<Port> is a sequence; the    *)
(* HashMap<String, Box<dyn Node>> is a function from its key set.          *)
(***************************************************************************)
EXTENDS Integers, Sequences, FiniteSets, TLC

VARIABLES
    nodes,      \* NodeGraph.nodes: instance name -> node
    returned,   \* the names the add calls have returned, in call order
    status,     \* "running", or "panicked" once a call has panicked
    last,       \* the last call made: its name, its arguments, its result
    calls,      \* the number of calls made so far
    node,       \* a node outside any graph, driven through the Node trait
    alpha       \* an AlphaOver node outside any graph

vars == <<nodes, returned, status, last, calls, node, alpha>>

-----------------------------------------------------------------------------
(* Bounds of the exploration: the calls made on a graph, the calls made on  *)
(* a single node, the largest index format_name is called with, the longest *)
(* buffer execute is called with.                                           *)

MaxCalls == 6

MaxLen == 4

MaxNodeCalls == 4

MaxIndex == 120

-----------------------------------------------------------------------------
(* Option<T> *)

None == <<>>

Some(x) == <<x>>

(* Port { node_name, slot_name } *)
Port(n, s) == [node_name |-> n, slot_name |-> s]

(* slice::contains *)
Contains(seq, x) == \E j \in 1..Len(seq) : seq[j] = x

-----------------------------------------------------------------------------
(* format_name *)

Digit(d) ==
    CASE d = 0 -> "0" [] d = 1 -> "1" [] d = 2 -> "2" [] d = 3 -> "3"
      [] d = 4 -> "4" [] d = 5 -> "5" [] d = 6 -> "6" [] d = 7 -> "7"
      [] d = 8 -> "8" [] d = 9 -> "9"

(* format!("{}", i) for a usize: the decimal digits, most significant first *)
RECURSIVE Decimal(_)
Decimal(i) == IF i < 10 THEN Digit(i) ELSE Decimal(i \div 10) \o Digit(i % 10)

(* A format_name that renders the index 0 as a digit too. *)
format_name_zero(s, i) == s \o Decimal(i)

format_name(s, i) == s \o (IF i = 0 THEN "" ELSE Decimal(i))

-----------------------------------------------------------------------------
(* Node kinds: instantiations of impl_node!(Name; in ..; out ..; has ..).   *)
(* MixRgba is the instantiation of nodes.rs. MixRgba1 is a second           *)
(* instantiation of the same macro whose kind name extends MixRgba's by a   *)
(* digit and whose output slot has another name.                            *)

INPUT_A == "INPUT_A"

INPUT_B == "INPUT_B"

OUTPUT_MIX == "OUTPUT_MIX"

OUTPUT_ALT == "OUTPUT_ALT"

MixRgba == "MixRgba"

MixRgba1 == "MixRgba1"

KindNames == {MixRgba, MixRgba1}

Inputs(k) == IF k = MixRgba THEN {INPUT_A, INPUT_B} ELSE {INPUT_A}

Outputs(k) == IF k = MixRgba THEN {OUTPUT_MIX} ELSE {OUTPUT_ALT}

SlotNames == {INPUT_A, INPUT_B, OUTPUT_MIX, OUTPUT_ALT}

(* $Name::new(mix) *)
new(k, mix) ==
    [kind |-> k, mix |-> mix,
     src |-> [s \in Inputs(k) |-> None],
     dst |-> [s \in Outputs(k) |-> <<>>]]

(* Node::name: stringify!($Name) *)
name(n) == n.kind

(* An input_source that answers for INPUT_A whatever slot is asked. *)
input_source_any(n, input_slot) == n.src[INPUT_A]

(* Node::input_source *)
input_source(n, input_slot) ==
    IF input_slot \in Inputs(n.kind) THEN n.src[input_slot] ELSE None

(* Node::output_destinations *)
output_destinations(n, output_slot) ==
    IF output_slot \in Outputs(n.kind) THEN Some(n.dst[output_slot]) ELSE None

(* A has_connection that compares node names only. *)
has_connection_by_name(n, output_slot, destination_port) ==
    LET d == output_destinations(n, output_slot)
    IN  IF d = None THEN FALSE
        ELSE \E i \in 1..Len(d[1]) : d[1][i].node_name = destination_port.node_name

(* Node::has_connection (the trait's default method) *)
has_connection(n, output_slot, destination_port) ==
    LET d == output_destinations(n, output_slot)
    IN  IF d = None THEN FALSE ELSE Contains(d[1], destination_port)

(* The three mutating methods return the node as the call left it and       *)
(* whether the call returned (ok) or panicked.                              *)

(* A connect_input that fills an empty slot only. *)
connect_input_keep(n, input_slot, source_port) ==
    IF input_slot \in Inputs(n.kind)
    THEN [ok |-> TRUE,
          node |-> IF n.src[input_slot] = None
                   THEN [n EXCEPT !.src[input_slot] = Some(source_port)]
                   ELSE n]
    ELSE [ok |-> FALSE, node |-> n]

(* A connect_input that sets every input slot of the node. *)
connect_input_all(n, input_slot, source_port) ==
    IF input_slot \in Inputs(n.kind)
    THEN [ok |-> TRUE,
          node |-> [n EXCEPT !.src = [s \in Inputs(n.kind) |-> Some(source_port)]]]
    ELSE [ok |-> FALSE, node |-> n]

(* Node::connect_input *)
connect_input(n, input_slot, source_port) ==
    IF input_slot \in Inputs(n.kind)
    THEN [ok |-> TRUE, node |-> [n EXCEPT !.src[input_slot] = Some(source_port)]]
    ELSE [ok |-> FALSE, node |-> n]

(* A connect_output that ignores a slot the kind does not declare. *)
connect_output_silent(n, output_slot, destination_port) ==
    IF output_slot \in Outputs(n.kind)
    THEN [ok |-> TRUE,
          node |-> [n EXCEPT !.dst[output_slot] = Append(@, destination_port)]]
    ELSE [ok |-> TRUE, node |-> n]

(* A connect_output that keeps the list free of duplicates. *)
connect_output_set(n, output_slot, destination_port) ==
    IF output_slot \in Outputs(n.kind)
    THEN [ok |-> TRUE,
          node |-> IF Contains(n.dst[output_slot], destination_port) THEN n
                   ELSE [n EXCEPT !.dst[output_slot] = Append(@, destination_port)]]
    ELSE [ok |-> FALSE, node |-> n]

(* Node::connect_output *)
connect_output(n, output_slot, destination_port) ==
    IF output_slot \in Outputs(n.kind)
    THEN [ok |-> TRUE,
          node |-> [n EXCEPT !.dst[output_slot] = Append(@, destination_port)]]
    ELSE [ok |-> FALSE, node |-> n]

(* A remove_output that leaves the destination list as it is. *)
remove_output_keep(n, output_slot, destination_port) ==
    [ok |-> output_slot \in Outputs(n.kind), node |-> n]

(* A remove_output that empties the list. *)
remove_output_clear(n, output_slot, destination_port) ==
    IF output_slot \in Outputs(n.kind)
    THEN [ok |-> TRUE, node |-> [n EXCEPT !.dst[output_slot] = <<>>]]
    ELSE [ok |-> FALSE, node |-> n]

(* A remove_output that leaves the kept entries in reverse order. *)
remove_output_reverse(n, output_slot, destination_port) ==
    IF output_slot \in Outputs(n.kind)
    THEN LET kept == SelectSeq(n.dst[output_slot], LAMBDA port : port # destination_port)
         IN  [ok |-> TRUE,
              node |-> [n EXCEPT !.dst[output_slot] =
                            [i \in 1..Len(kept) |-> kept[Len(kept) + 1 - i]]]]
    ELSE [ok |-> FALSE, node |-> n]

(* A remove_output that takes out the first occurrence only. *)
RECURSIVE DropFirst(_, _)
DropFirst(seq, p) ==
    IF seq = <<>> THEN <<>>
    ELSE IF Head(seq) = p THEN Tail(seq)
    ELSE <<Head(seq)>> \o DropFirst(Tail(seq), p)

remove_output_first(n, output_slot, destination_port) ==
    IF output_slot \in Outputs(n.kind)
    THEN [ok |-> TRUE,
          node |-> [n EXCEPT !.dst[output_slot] = DropFirst(@, destination_port)]]
    ELSE [ok |-> FALSE, node |-> n]

(* Node::remove_output: Vec::retain(|port| port != destination_port) *)
remove_output(n, output_slot, destination_port) ==
    IF output_slot \in Outputs(n.kind)
    THEN [ok |-> TRUE,
          node |-> [n EXCEPT !.dst[output_slot] =
                        SelectSeq(@, LAMBDA port : port # destination_port)]]
    ELSE [ok |-> FALSE, node |-> n]

-----------------------------------------------------------------------------
(* MixRgba's execute. An f32 is written in quarters (One is 1.0); the       *)
(* samples and mix factors drawn are 0, 0.5 and 1.0, on which every product *)
(* and sum below is a multiple of a quarter and exact in f32. An ImageData  *)
(* is the sequence of its samples; a HashMap<&str, ImageData> is a function *)
(* from its key set.                                                        *)

One == 4

fmul(x, y) == (x * y) \div One

fadd(x, y) == x + y

fsub(x, y) == x - y

(* A closure with the two weights exchanged. *)
MixSampleSwapped(mix, a, b) == fadd(fmul(b, mix), fmul(a, fsub(One, mix)))

(* |(a, b)| a * this.mix + b * (1. - this.mix) *)
MixSample(mix, a, b) == fadd(fmul(a, mix), fmul(b, fsub(One, mix)))

(* A pairing that gives up when the two lengths differ. *)
RECURSIVE ZipMixStrict(_, _, _)
ZipMixStrict(a, b, mix) ==
    IF Len(a) # Len(b) \/ a = <<>> THEN <<>>
    ELSE <<MixSample(mix, Head(a), Head(b))>> \o ZipMixStrict(Tail(a), Tail(b), mix)

(* a.into_iter().zip(b.into_iter()).map(..).collect(): zip ends as soon as  *)
(* one of the two iterators ends.                                           *)
RECURSIVE ZipMix(_, _, _)
ZipMix(a, b, mix) ==
    IF a = <<>> \/ b = <<>> THEN <<>>
    ELSE <<MixSample(mix, Head(a), Head(b))>> \o ZipMix(Tail(a), Tail(b), mix)

(* HashMap::remove(key) as an Option: the entry's value when it is there *)
Remove(input, key) == IF key \in DOMAIN input THEN Some(input[key]) ELSE None

(* An execute that takes a missing INPUT_B for an empty buffer. *)
execute_default(n, input) ==
    LET a == Remove(input, INPUT_A)
        b == Remove(input, INPUT_B)
    IN  IF a = None THEN None
        ELSE Some([s \in {OUTPUT_MIX} |->
                      ZipMix(a[1], IF b = None THEN <<>> ELSE b[1], n.mix)])

(* Node::execute of MixRgba: None when INPUT_A or INPUT_B is missing (the   *)
(* two `?`), else Some of the map with the one entry OUTPUT_MIX.            *)
execute(n, input) ==
    LET a == Remove(input, INPUT_A)
        b == Remove(input, INPUT_B)
    IN  IF a = None THEN None
        ELSE IF b = None THEN None
        ELSE Some([s \in {OUTPUT_MIX} |-> ZipMix(a[1], b[1], n.mix)])

(* An execute that takes the inputs it finds out of the node's sources. *)
executed_consuming(n, input) ==
    [n EXCEPT !.src = [s \in DOMAIN n.src |->
                          IF s \in DOMAIN input THEN None ELSE n.src[s]]]

(* Node::execute takes &self and the closure this: &MixRgba: the node as    *)
(* the call leaves it.                                                      *)
executed(n, input) == n

-----------------------------------------------------------------------------
(* AlphaOver (composite.rs): the node written by hand, with one field per   *)
(* slot. Its slot constants are the strings of MixRgba's.                   *)

ALPHA_NAME == "AlphaOver"

(* AlphaOver::new(mix) *)
alpha_new(mix) ==
    [mix |-> mix, input_a_source |-> None, input_b_source |-> None,
     mix_destinations |-> <<>>]

(* Node::name for AlphaOver *)
alpha_name(a) == ALPHA_NAME

(* Node::execute for AlphaOver *)
alpha_execute(a, input) ==
    LET ia == Remove(input, INPUT_A)
        ib == Remove(input, INPUT_B)
    IN  IF ia = None THEN None
        ELSE IF ib = None THEN None
        ELSE Some([s \in {OUTPUT_MIX} |-> ZipMix(ia[1], ib[1], a.mix)])

(* Node::input_source for AlphaOver *)
alpha_input_source(a, slot) ==
    IF slot = INPUT_A THEN a.input_a_source
    ELSE IF slot = INPUT_B THEN a.input_b_source
    ELSE None

(* Node::output_destinations for AlphaOver *)
alpha_output_destinations(a, slot) ==
    IF slot = OUTPUT_MIX THEN Some(a.mix_destinations) ELSE None

(* Node::has_connection, the trait's default method, on an AlphaOver *)
alpha_has_connection(a, output_slot, destination_port) ==
    LET d == alpha_output_destinations(a, output_slot)
    IN  IF d = None THEN FALSE ELSE Contains(d[1], destination_port)

(* A connect_input whose two match arms set each other's field. *)
alpha_connect_input_swapped(a, slot, from) ==
    IF slot = INPUT_A THEN [ok |-> TRUE, node |-> [a EXCEPT !.input_b_source = Some(from)]]
    ELSE IF slot = INPUT_B
    THEN [ok |-> TRUE, node |-> [a EXCEPT !.input_a_source = Some(from)]]
    ELSE [ok |-> FALSE, node |-> a]

(* Node::connect_input for AlphaOver *)
alpha_connect_input(a, slot, from) ==
    IF slot = INPUT_A THEN [ok |-> TRUE, node |-> [a EXCEPT !.input_a_source = Some(from)]]
    ELSE IF slot = INPUT_B
    THEN [ok |-> TRUE, node |-> [a EXCEPT !.input_b_source = Some(from)]]
    ELSE [ok |-> FALSE, node |-> a]

(* Node::connect_output for AlphaOver *)
alpha_connect_output(a, slot, to) ==
    IF slot = OUTPUT_MIX
    THEN [ok |-> TRUE, node |-> [a EXCEPT !.mix_destinations = Append(@, to)]]
    ELSE [ok |-> FALSE, node |-> a]

(* Node::remove_output for AlphaOver *)
alpha_remove_output(a, slot, to) ==
    IF slot = OUTPUT_MIX
    THEN [ok |-> TRUE,
          node |-> [a EXCEPT !.mix_destinations =
                        SelectSeq(@, LAMBDA port : port # to)]]
    ELSE [ok |-> FALSE, node |-> a]

-----------------------------------------------------------------------------
(* NodeGraph *)

(* HashMap::insert *)
Insert(g, k, v) == [x \in DOMAIN g \cup {k} |-> IF x = k THEN v ELSE g[x]]

(* A loop that starts numbering at 1. *)
RECURSIVE FirstFreeOne(_, _, _)
FirstFreeOne(g, s, i) ==
    IF format_name(s, i + 1) \in DOMAIN g THEN FirstFreeOne(g, s, i + 1) ELSE i + 1

(* NodeGraph::add, the while loop: the first i whose name is not a key *)
RECURSIVE FirstFree(_, _, _)
FirstFree(g, s, i) ==
    IF format_name(s, i) \in DOMAIN g THEN FirstFree(g, s, i + 1) ELSE i

(* An add that takes the number of nodes as the index. *)
add_count(g, n) ==
    LET nm == format_name(name(n), Cardinality(DOMAIN g))
    IN  [name |-> nm, nodes |-> Insert(g, nm, n)]

(* An add that inserts under the kind name, without the loop. *)
add_overwrite(g, n) == [name |-> name(n), nodes |-> Insert(g, name(n), n)]

(* An add that stores every node of the graph anew, unconnected. *)
add_rebuild(g, n) ==
    LET i == FirstFree(g, name(n), 0)
        nm == format_name(name(n), i)
    IN  [name |-> nm,
         nodes |-> Insert([k \in DOMAIN g |-> new(g[k].kind, g[k].mix)], nm, n)]

(* NodeGraph::add: the returned name and the map after the insert *)
add(g, n) ==
    LET i == FirstFree(g, name(n), 0)
        nm == format_name(name(n), i)
    IN  [name |-> nm, nodes |-> Insert(g, nm, n)]

(* NodeGraph::connect, the removal scan. iter_mut() visits the map's nodes  *)
(* in an unspecified order and the loop breaks at the first match: the node *)
(* acted on is any one of the matching nodes, None when there is none.      *)
ScanMatches(g, from, to) ==
    {k \in DOMAIN g : has_connection(g[k], from.slot_name, to)}

ScanChoices(g, from, to) ==
    IF ScanMatches(g, from, to) = {} THEN {None}
    ELSE {Some(k) : k \in ScanMatches(g, from, to)}

(* A connect that skips the step whose node is missing (if let Some(..))    *)
(* instead of unwrapping.                                                   *)
connect_lenient(g, from, to, hit) ==
    LET r0 == IF hit = None THEN [ok |-> TRUE, node |-> None]
              ELSE remove_output(g[hit[1]], from.slot_name, to)
        g1 == IF hit # None /\ r0.ok THEN [g EXCEPT ![hit[1]] = r0.node] ELSE g
        r1 == IF from.node_name \in DOMAIN g1
              THEN connect_output(g1[from.node_name], from.slot_name, to)
              ELSE [ok |-> TRUE, node |-> None]
        g2 == IF from.node_name \in DOMAIN g1
              THEN [g1 EXCEPT ![from.node_name] = r1.node] ELSE g1
        r2 == IF to.node_name \in DOMAIN g2
              THEN connect_input(g2[to.node_name], to.slot_name, from)
              ELSE [ok |-> TRUE, node |-> None]
        g3 == IF to.node_name \in DOMAIN g2
              THEN [g2 EXCEPT ![to.node_name] = r2.node] ELSE g2
    IN  IF ~r0.ok THEN [ok |-> FALSE, nodes |-> g]
        ELSE IF ~r1.ok THEN [ok |-> FALSE, nodes |-> g1]
        ELSE IF ~r2.ok THEN [ok |-> FALSE, nodes |-> g2]
        ELSE [ok |-> TRUE, nodes |-> g3]

(* The connection topology: the names a node's destination lists point to, *)
(* and the nodes reached from a set of names in at most n steps.            *)
Successors(g, k) ==
    IF k \in DOMAIN g
    THEN UNION {{g[k].dst[s][i].node_name : i \in 1..Len(g[k].dst[s])} :
                  s \in Outputs(g[k].kind)}
    ELSE {}

RECURSIVE ReachSet(_, _, _)
ReachSet(g, S, n) ==
    IF n = 0 THEN S
    ELSE ReachSet(g, S \cup UNION {Successors(g, k) : k \in S}, n - 1)

Reaches(g, a, b) == b \in ReachSet(g, {a}, Cardinality(DOMAIN g))

(* A connect that refuses a connection closing a cycle. *)
connect_acyclic(g, from, to, hit) ==
    LET r0 == IF hit = None THEN [ok |-> TRUE, node |-> None]
              ELSE remove_output(g[hit[1]], from.slot_name, to)
        g1 == IF hit # None /\ r0.ok THEN [g EXCEPT ![hit[1]] = r0.node] ELSE g
        r1 == connect_output(g1[from.node_name], from.slot_name, to)
        g2 == [g1 EXCEPT ![from.node_name] = r1.node]
        r2 == connect_input(g2[to.node_name], to.slot_name, from)
        g3 == [g2 EXCEPT ![to.node_name] = r2.node]
    IN  IF Reaches(g, to.node_name, from.node_name) THEN [ok |-> FALSE, nodes |-> g]
        ELSE IF ~r0.ok THEN [ok |-> FALSE, nodes |-> g]
        ELSE IF from.node_name \notin DOMAIN g1 THEN [ok |-> FALSE, nodes |-> g1]
        ELSE IF ~r1.ok THEN [ok |-> FALSE, nodes |-> g1]
        ELSE IF to.node_name \notin DOMAIN g2 THEN [ok |-> FALSE, nodes |-> g2]
        ELSE IF ~r2.ok THEN [ok |-> FALSE, nodes |-> g2]
        ELSE [ok |-> TRUE, nodes |-> g3]

(* A connect whose output slot holds one destination: the list of `from`   *)
(* is emptied before the new destination is pushed.                         *)
connect_exclusive(g, from, to, hit) ==
    LET r0 == IF hit = None THEN [ok |-> TRUE, node |-> None]
              ELSE remove_output(g[hit[1]], from.slot_name, to)
        g1 == IF hit # None /\ r0.ok THEN [g EXCEPT ![hit[1]] = r0.node] ELSE g
        f  == g1[from.node_name]
        r1 == connect_output(
                  IF from.slot_name \in Outputs(f.kind)
                  THEN [f EXCEPT !.dst[from.slot_name] = <<>>] ELSE f,
                  from.slot_name, to)
        g2 == [g1 EXCEPT ![from.node_name] = r1.node]
        r2 == connect_input(g2[to.node_name], to.slot_name, from)
        g3 == [g2 EXCEPT ![to.node_name] = r2.node]
    IN  IF ~r0.ok THEN [ok |-> FALSE, nodes |-> g]
        ELSE IF from.node_name \notin DOMAIN g1 THEN [ok |-> FALSE, nodes |-> g1]
        ELSE IF ~r1.ok THEN [ok |-> FALSE, nodes |-> g1]
        ELSE IF to.node_name \notin DOMAIN g2 THEN [ok |-> FALSE, nodes |-> g2]
        ELSE IF ~r2.ok THEN [ok |-> FALSE, nodes |-> g2]
        ELSE [ok |-> TRUE, nodes |-> g3]

(* A connect whose removal step takes `to` out of the list of whatever     *)
(* port is the source of `to`, under any slot name.                         *)
connect_by_source(g, from, to, hit) ==
    LET old == IF to.node_name \in DOMAIN g
               THEN input_source(g[to.node_name], to.slot_name) ELSE None
        r0 == IF old = None \/ old[1].node_name \notin DOMAIN g
              THEN [ok |-> TRUE, node |-> None]
              ELSE remove_output(g[old[1].node_name], old[1].slot_name, to)
        g1 == IF r0.node # None /\ r0.ok
              THEN [g EXCEPT ![old[1].node_name] = r0.node] ELSE g
        r1 == connect_output(g1[from.node_name], from.slot_name, to)
        g2 == [g1 EXCEPT ![from.node_name] = r1.node]
        r2 == connect_input(g2[to.node_name], to.slot_name, from)
        g3 == [g2 EXCEPT ![to.node_name] = r2.node]
    IN  IF ~r0.ok THEN [ok |-> FALSE, nodes |-> g]
        ELSE IF from.node_name \notin DOMAIN g1 THEN [ok |-> FALSE, nodes |-> g1]
        ELSE IF ~r1.ok THEN [ok |-> FALSE, nodes |-> g1]
        ELSE IF to.node_name \notin DOMAIN g2 THEN [ok |-> FALSE, nodes |-> g2]
        ELSE IF ~r2.ok THEN [ok |-> FALSE, nodes |-> g2]
        ELSE [ok |-> TRUE, nodes |-> g3]

(* A connect without the removal scan. *)
connect_no_removal(g, from, to, hit) ==
    LET r1 == connect_output(g[from.node_name], from.slot_name, to)
        g2 == [g EXCEPT ![from.node_name] = r1.node]
        r2 == connect_input(g2[to.node_name], to.slot_name, from)
        g3 == [g2 EXCEPT ![to.node_name] = r2.node]
    IN  IF from.node_name \notin DOMAIN g THEN [ok |-> FALSE, nodes |-> g]
        ELSE IF ~r1.ok THEN [ok |-> FALSE, nodes |-> g]
        ELSE IF to.node_name \notin DOMAIN g2 THEN [ok |-> FALSE, nodes |-> g2]
        ELSE IF ~r2.ok THEN [ok |-> FALSE, nodes |-> g2]
        ELSE [ok |-> TRUE, nodes |-> g3]

(* A connect that removes after it has connected both sides. *)
connect_remove_after(g, from, to, hit) ==
    LET r1 == connect_output(g[from.node_name], from.slot_name, to)
        g1 == [g EXCEPT ![from.node_name] = r1.node]
        r2 == connect_input(g1[to.node_name], to.slot_name, from)
        g2 == [g1 EXCEPT ![to.node_name] = r2.node]
        r3 == IF hit = None THEN [ok |-> TRUE, node |-> None]
              ELSE remove_output(g2[hit[1]], from.slot_name, to)
        g3 == IF hit # None /\ r3.ok THEN [g2 EXCEPT ![hit[1]] = r3.node] ELSE g2
    IN  IF from.node_name \notin DOMAIN g THEN [ok |-> FALSE, nodes |-> g]
        ELSE IF ~r1.ok THEN [ok |-> FALSE, nodes |-> g]
        ELSE IF to.node_name \notin DOMAIN g1 THEN [ok |-> FALSE, nodes |-> g1]
        ELSE IF ~r2.ok THEN [ok |-> FALSE, nodes |-> g1]
        ELSE IF ~r3.ok THEN [ok |-> FALSE, nodes |-> g2]
        ELSE [ok |-> TRUE, nodes |-> g3]

(* A connect that looks at the to node and its slot before it changes      *)
(* anything.                                                                *)
connect_checked(g, from, to, hit) ==
    LET r0 == IF hit = None THEN [ok |-> TRUE, node |-> None]
              ELSE remove_output(g[hit[1]], from.slot_name, to)
        g1 == IF hit # None /\ r0.ok THEN [g EXCEPT ![hit[1]] = r0.node] ELSE g
        r1 == connect_output(g1[from.node_name], from.slot_name, to)
        g2 == [g1 EXCEPT ![from.node_name] = r1.node]
        r2 == connect_input(g2[to.node_name], to.slot_name, from)
        g3 == [g2 EXCEPT ![to.node_name] = r2.node]
    IN  IF to.node_name \notin DOMAIN g THEN [ok |-> FALSE, nodes |-> g]
        ELSE IF to.slot_name \notin Inputs(g[to.node_name].kind)
             THEN [ok |-> FALSE, nodes |-> g]
        ELSE IF ~r0.ok THEN [ok |-> FALSE, nodes |-> g]
        ELSE IF from.node_name \notin DOMAIN g1 THEN [ok |-> FALSE, nodes |-> g1]
        ELSE IF ~r1.ok THEN [ok |-> FALSE, nodes |-> g1]
        ELSE [ok |-> TRUE, nodes |-> g3]

(* A connect that removes only when the scan stops at the from node. *)
connect_remove_own(g, from, to, hit) ==
    LET own == hit = Some(from.node_name)
        r0 == IF ~own THEN [ok |-> TRUE, node |-> None]
              ELSE remove_output(g[hit[1]], from.slot_name, to)
        g1 == IF own /\ r0.ok THEN [g EXCEPT ![hit[1]] = r0.node] ELSE g
        r1 == connect_output(g1[from.node_name], from.slot_name, to)
        g2 == [g1 EXCEPT ![from.node_name] = r1.node]
        r2 == connect_input(g2[to.node_name], to.slot_name, from)
        g3 == [g2 EXCEPT ![to.node_name] = r2.node]
    IN  IF ~r0.ok THEN [ok |-> FALSE, nodes |-> g]
        ELSE IF from.node_name \notin DOMAIN g1 THEN [ok |-> FALSE, nodes |-> g1]
        ELSE IF ~r1.ok THEN [ok |-> FALSE, nodes |-> g1]
        ELSE IF to.node_name \notin DOMAIN g2 THEN [ok |-> FALSE, nodes |-> g2]
        ELSE IF ~r2.ok THEN [ok |-> FALSE, nodes |-> g2]
        ELSE [ok |-> TRUE, nodes |-> g3]

(* NodeGraph::connect with the scan stopping at node `hit`: the map as the  *)
(* call left it and whether it returned (ok) or panicked.                   *)
connect(g, from, to, hit) ==
    LET r0 == IF hit = None THEN [ok |-> TRUE, node |-> None]
              ELSE remove_output(g[hit[1]], from.slot_name, to)
        g1 == IF hit # None /\ r0.ok THEN [g EXCEPT ![hit[1]] = r0.node] ELSE g
        r1 == connect_output(g1[from.node_name], from.slot_name, to)
        g2 == [g1 EXCEPT ![from.node_name] = r1.node]
        r2 == connect_input(g2[to.node_name], to.slot_name, from)
        g3 == [g2 EXCEPT ![to.node_name] = r2.node]
    IN  IF ~r0.ok THEN [ok |-> FALSE, nodes |-> g]
        ELSE IF from.node_name \notin DOMAIN g1 THEN [ok |-> FALSE, nodes |-> g1]
        ELSE IF ~r1.ok THEN [ok |-> FALSE, nodes |-> g1]
        ELSE IF to.node_name \notin DOMAIN g2 THEN [ok |-> FALSE, nodes |-> g2]
        ELSE IF ~r2.ok THEN [ok |-> FALSE, nodes |-> g2]
        ELSE [ok |-> TRUE, nodes |-> g3]

-----------------------------------------------------------------------------
(* The inputs the calls are explored with. A caller of connect names an     *)
(* output slot constant for `from` and an input slot constant for `to`; the *)
(* node it names may be of a kind that does not declare that slot, or may   *)
(* not be in the graph (one port of each direction names a missing node).  *)

(* The mix factor is written in quarters: 2 is 0.5 and 4 is 1.0. *)
MixInputs == {2}

NodeMixInputs == {2, 4}

Samples == {0, 2, 4}

RECURSIVE SeqsUpTo(_)
SeqsUpTo(n) ==
    IF n = 0 THEN {<<>>}
    ELSE SeqsUpTo(n - 1) \cup
         {Append(s, x) : s \in {q \in SeqsUpTo(n - 1) : Len(q) = n - 1}, x \in Samples}

(* The buffers execute is called with, and the input maps: INPUT_A and      *)
(* INPUT_B each missing or holding a buffer, a third entry missing or not.  *)
Buffers == SeqsUpTo(MaxLen)

OptBuffers == {None} \cup {Some(b) : b \in Buffers}

InputMap(a, b, x) ==
    [k \in (IF a = None THEN {} ELSE {INPUT_A})
           \cup (IF b = None THEN {} ELSE {INPUT_B})
           \cup (IF x = None THEN {} ELSE {OUTPUT_MIX}) |->
        IF k = INPUT_A THEN a[1] ELSE IF k = INPUT_B THEN b[1] ELSE x[1]]

ExecMixInputs == {0, 2, 4}

(* The input maps execute is called with on a node that has been connected. *)
NodeExecInputs ==
    {InputMap(a, b, None) : a \in {None, Some(<<4, 0>>)}, b \in {None, Some(<<0>>)}}

FormatInputs == {"a", MixRgba, MixRgba1}

NodePorts ==
    {Port(MixRgba, INPUT_A), Port(MixRgba, OUTPUT_MIX), Port(MixRgba1, INPUT_A)}

NoSuchNode == "Ghost"

FromInputs(g) ==
    {Port(n, s) : n \in DOMAIN g, s \in {OUTPUT_MIX, OUTPUT_ALT}}
      \cup {Port(NoSuchNode, OUTPUT_MIX)}

ToInputs(g) ==
    {Port(n, s) : n \in DOMAIN g, s \in {INPUT_A, INPUT_B}}
      \cup {Port(NoSuchNode, INPUT_A)}

(* The last call made is a call of `op`. *)
IsLast(op) == last.op = op

(* The step is a call of `op`. *)
Called(op) == calls' = calls + 1 /\ last'.op = op

-----------------------------------------------------------------------------
(* The graph driven by its callers: NodeGraph::new, then add and connect.   *)
(* A panic ends the process: no call follows it.                            *)

Init ==
    /\ nodes = << >>
    /\ returned = <<>>
    /\ status = "running"
    /\ last = [op |-> "new"]
    /\ calls = 0
    /\ node = new(MixRgba, 2)
    /\ alpha = alpha_new(2)

Add ==
    /\ status = "running"
    /\ calls < MaxCalls
    /\ \E k \in KindNames, mix \in MixInputs :
         LET r == add(nodes, new(k, mix))
         IN  /\ nodes' = r.nodes
             /\ returned' = Append(returned, r.name)
             /\ last' = [op |-> "add", kind |-> k, mix |-> mix, ret |-> r.name]
    /\ calls' = calls + 1
    /\ UNCHANGED <<status, node, alpha>>

Connect ==
    /\ status = "running"
    /\ calls < MaxCalls
    /\ \E from \in FromInputs(nodes), to \in ToInputs(nodes) :
         \E hit \in ScanChoices(nodes, from, to) :
           LET r == connect(nodes, from, to, hit)
           IN  /\ nodes' = r.nodes
               /\ status' = IF r.ok THEN "running" ELSE "panicked"
               /\ last' = [op |-> "connect", from |-> from, to |-> to, hit |-> hit]
    /\ calls' = calls + 1
    /\ UNCHANGED <<returned, node, alpha>>

Next == Add \/ Connect

Spec == Init /\ [][Next]_vars

-----------------------------------------------------------------------------
(* One node outside any graph, driven through the Node trait's methods.     *)

InitNode ==
    /\ nodes = << >>
    /\ returned = <<>>
    /\ status = "running"
    /\ last = [op |-> "new"]
    /\ calls = 0
    /\ node \in {new(k, mix) : k \in KindNames, mix \in NodeMixInputs}
    /\ alpha = alpha_new(2)

NodeConnectInput ==
    /\ status = "running"
    /\ calls < MaxNodeCalls
    /\ \E slot \in SlotNames, p \in NodePorts :
         LET r == connect_input(node, slot, p)
         IN  /\ node' = r.node
             /\ status' = IF r.ok THEN "running" ELSE "panicked"
             /\ last' = [op |-> "connect_input", slot |-> slot, port |-> p]
    /\ calls' = calls + 1
    /\ UNCHANGED <<nodes, returned, alpha>>

NodeConnectOutput ==
    /\ status = "running"
    /\ calls < MaxNodeCalls
    /\ \E slot \in SlotNames, p \in NodePorts :
         LET r == connect_output(node, slot, p)
         IN  /\ node' = r.node
             /\ status' = IF r.ok THEN "running" ELSE "panicked"
             /\ last' = [op |-> "connect_output", slot |-> slot, port |-> p]
    /\ calls' = calls + 1
    /\ UNCHANGED <<nodes, returned, alpha>>

NodeRemoveOutput ==
    /\ status = "running"
    /\ calls < MaxNodeCalls
    /\ \E slot \in SlotNames, p \in NodePorts :
         LET r == remove_output(node, slot, p)
         IN  /\ node' = r.node
             /\ status' = IF r.ok THEN "running" ELSE "panicked"
             /\ last' = [op |-> "remove_output", slot |-> slot, port |-> p]
    /\ calls' = calls + 1
    /\ UNCHANGED <<nodes, returned, alpha>>

NodeInputSource ==
    /\ status = "running"
    /\ calls < MaxNodeCalls
    /\ \E slot \in SlotNames :
         last' = [op |-> "input_source", slot |-> slot,
                  ret |-> input_source(node, slot)]
    /\ calls' = calls + 1
    /\ UNCHANGED <<nodes, returned, status, node, alpha>>

NodeHasConnection ==
    /\ status = "running"
    /\ calls < MaxNodeCalls
    /\ \E slot \in SlotNames, p \in NodePorts :
         last' = [op |-> "has_connection", slot |-> slot, port |-> p,
                  ret |-> has_connection(node, slot, p)]
    /\ calls' = calls + 1
    /\ UNCHANGED <<nodes, returned, status, node, alpha>>

NodeExecuteConnected ==
    /\ status = "running"
    /\ calls < MaxNodeCalls
    /\ node.kind = MixRgba
    /\ \E input \in NodeExecInputs :
         /\ node' = executed(node, input)
         /\ last' = [op |-> "execute", input |-> input, ret |-> execute(node, input)]
    /\ calls' = calls + 1
    /\ UNCHANGED <<nodes, returned, status, alpha>>

NextNode ==
    \/ NodeConnectInput
    \/ NodeConnectOutput
    \/ NodeRemoveOutput
    \/ NodeInputSource
    \/ NodeHasConnection
    \/ NodeExecuteConnected

SpecNode == InitNode /\ [][NextNode]_vars

-----------------------------------------------------------------------------
(* format_name called on its own, as the test format_name_correct does.     *)

FormatName ==
    /\ calls = 0
    /\ \E s \in FormatInputs, i \in 0..MaxIndex :
         last' = [op |-> "format_name", s |-> s, i |-> i,
                  ret |-> format_name(s, i)]
    /\ calls' = calls + 1
    /\ UNCHANGED <<nodes, returned, status, node, alpha>>

SpecFormat == Init /\ [][FormatName]_vars

-----------------------------------------------------------------------------
(* execute called on a MixRgba node on its own.                             *)

InitExec ==
    /\ nodes = << >>
    /\ returned = <<>>
    /\ status = "running"
    /\ last = [op |-> "new"]
    /\ calls = 0
    /\ node \in {new(MixRgba, mix) : mix \in ExecMixInputs}
    /\ alpha = alpha_new(2)

NodeExecute ==
    /\ status = "running"
    /\ calls = 0
    /\ \E a \in OptBuffers, b \in OptBuffers, x \in {None, Some(<<One>>)} :
         LET input == InputMap(a, b, x)
         IN  /\ node' = executed(node, input)
             /\ last' = [op |-> "execute", input |-> input, ret |-> execute(node, input)]
    /\ calls' = calls + 1
    /\ UNCHANGED <<nodes, returned, status, alpha>>

SpecExec == InitExec /\ [][NodeExecute]_vars

-----------------------------------------------------------------------------
(* A MixRgba and an AlphaOver built with the same mix factor and driven by  *)
(* the same calls. A step makes one call on both; a call that panics on     *)
(* either node ends the run.                                                *)

InitPair ==
    /\ nodes = << >>
    /\ returned = <<>>
    /\ status = "running"
    /\ last = [op |-> "new"]
    /\ calls = 0
    /\ \E mix \in NodeMixInputs :
         /\ node = new(MixRgba, mix)
         /\ alpha = alpha_new(mix)

PairConnectInput ==
    /\ status = "running"
    /\ calls < MaxNodeCalls
    /\ \E slot \in SlotNames, p \in NodePorts :
         LET r == connect_input(node, slot, p)
             ra == alpha_connect_input(alpha, slot, p)
         IN  /\ node' = r.node
             /\ alpha' = ra.node
             /\ status' = IF r.ok /\ ra.ok THEN "running" ELSE "panicked"
             /\ last' = [op |-> "connect_input", slot |-> slot, port |-> p,
                         ok |-> r.ok, aok |-> ra.ok, ret |-> None, aret |-> None]
    /\ calls' = calls + 1
    /\ UNCHANGED <<nodes, returned>>

PairConnectOutput ==
    /\ status = "running"
    /\ calls < MaxNodeCalls
    /\ \E slot \in SlotNames, p \in NodePorts :
         LET r == connect_output(node, slot, p)
             ra == alpha_connect_output(alpha, slot, p)
         IN  /\ node' = r.node
             /\ alpha' = ra.node
             /\ status' = IF r.ok /\ ra.ok THEN "running" ELSE "panicked"
             /\ last' = [op |-> "connect_output", slot |-> slot, port |-> p,
                         ok |-> r.ok, aok |-> ra.ok, ret |-> None, aret |-> None]
    /\ calls' = calls + 1
    /\ UNCHANGED <<nodes, returned>>

PairRemoveOutput ==
    /\ status = "running"
    /\ calls < MaxNodeCalls
    /\ \E slot \in SlotNames, p \in NodePorts :
         LET r == remove_output(node, slot, p)
             ra == alpha_remove_output(alpha, slot, p)
         IN  /\ node' = r.node
             /\ alpha' = ra.node
             /\ status' = IF r.ok /\ ra.ok THEN "running" ELSE "panicked"
             /\ last' = [op |-> "remove_output", slot |-> slot, port |-> p,
                         ok |-> r.ok, aok |-> ra.ok, ret |-> None, aret |-> None]
    /\ calls' = calls + 1
    /\ UNCHANGED <<nodes, returned>>

PairInputSource ==
    /\ status = "running"
    /\ calls < MaxNodeCalls
    /\ \E slot \in SlotNames :
         last' = [op |-> "input_source", slot |-> slot, ok |-> TRUE, aok |-> TRUE,
                  ret |-> input_source(node, slot),
                  aret |-> alpha_input_source(alpha, slot)]
    /\ calls' = calls + 1
    /\ UNCHANGED <<nodes, returned, status, node, alpha>>

PairOutputDestinations ==
    /\ status = "running"
    /\ calls < MaxNodeCalls
    /\ \E slot \in SlotNames :
         last' = [op |-> "output_destinations", slot |-> slot, ok |-> TRUE, aok |-> TRUE,
                  ret |-> output_destinations(node, slot),
                  aret |-> alpha_output_destinations(alpha, slot)]
    /\ calls' = calls + 1
    /\ UNCHANGED <<nodes, returned, status, node, alpha>>

PairHasConnection ==
    /\ status = "running"
    /\ calls < MaxNodeCalls
    /\ \E slot \in SlotNames, p \in NodePorts :
         last' = [op |-> "has_connection", slot |-> slot, port |-> p,
                  ok |-> TRUE, aok |-> TRUE,
                  ret |-> has_connection(node, slot, p),
                  aret |-> alpha_has_connection(alpha, slot, p)]
    /\ calls' = calls + 1
    /\ UNCHANGED <<nodes, returned, status, node, alpha>>

PairExecute ==
    /\ status = "running"
    /\ calls < MaxNodeCalls
    /\ \E input \in NodeExecInputs :
         /\ node' = executed(node, input)
         /\ last' = [op |-> "execute", input |-> input, ok |-> TRUE, aok |-> TRUE,
                     ret |-> execute(node, input),
                     aret |-> alpha_execute(alpha, input)]
    /\ calls' = calls + 1
    /\ UNCHANGED <<nodes, returned, status, alpha>>

NextPair ==
    \/ PairConnectInput
    \/ PairConnectOutput
    \/ PairRemoveOutput
    \/ PairInputSource
    \/ PairOutputDestinations
    \/ PairHasConnection
    \/ PairExecute

SpecPair == InitPair /\ [][NextPair]_vars

-----------------------------------------------------------------------------
(* Claims about the graph (Spec).                                           *)

(* The step is the call connect(from, to). *)
CalledConnect(from, to) ==
    Called("connect") /\ last'.from = from /\ last'.to = to

(* The graph holds exactly three mix nodes n1, n2, n3 (in the order added)  *)
(* with the given sources of n2's input slots and the given destination     *)
(* lists of n1 and n3; every other slot is unconnected.                     *)
C1_Graph(n2_a, n2_b, n1_out, n3_out) ==
    /\ Len(returned) = 3
    /\ DOMAIN nodes = {returned[1], returned[2], returned[3]}
    /\ LET n1 == nodes[returned[1]]
           n2 == nodes[returned[2]]
           n3 == nodes[returned[3]]
       IN  /\ n1 = [new(MixRgba, n1.mix) EXCEPT !.dst[OUTPUT_MIX] = n1_out]
           /\ n2 = [new(MixRgba, n2.mix) EXCEPT !.src[INPUT_A] = n2_a,
                                                !.src[INPUT_B] = n2_b]
           /\ n3 = [new(MixRgba, n3.mix) EXCEPT !.dst[OUTPUT_MIX] = n3_out]

N1_OUT == Port(returned[1], OUTPUT_MIX)

N3_OUT == Port(returned[3], OUTPUT_MIX)

N2_A == Port(returned[2], INPUT_A)

N2_B == Port(returned[2], INPUT_B)

(* The states of the test node_graph_connect: after the three adds (no      *)
(* other call was made), and after each of its three connects.              *)
C1_Added == calls = 3 /\ C1_Graph(None, None, <<>>, <<>>)

C1_First == calls = 4 /\ C1_Graph(Some(N1_OUT), None, <<N2_A>>, <<>>)

C1_Second == calls = 5 /\ C1_Graph(Some(N1_OUT), Some(N3_OUT), <<N2_A>>, <<N2_B>>)

C1_Final == calls = 6 /\ C1_Graph(Some(N3_OUT), Some(N3_OUT), <<>>, <<N2_B, N2_A>>)

(* C1: from the empty graph, after three mix nodes n1, n2, n3 are added,    *)
(* connect(n1.OUTPUT_MIX -> n2.INPUT_A), connect(n3.OUTPUT_MIX ->           *)
(* n2.INPUT_B) and connect(n3.OUTPUT_MIX -> n2.INPUT_A) each return without *)
(* a panic, and in the final state n2.INPUT_A and n2.INPUT_B are sourced    *)
(* from n3.OUTPUT_MIX, n1's OUTPUT_MIX destination list is empty and n3's   *)
(* is exactly <<n2.INPUT_B, n2.INPUT_A>>.                                   *)
C1_Theorem ==
    [][/\ (C1_Added /\ CalledConnect(N1_OUT, N2_A))
            => (status' = "running" /\ C1_First')
       /\ (C1_First /\ CalledConnect(N3_OUT, N2_B))
            => (status' = "running" /\ C1_Second')
       /\ (C1_Second /\ CalledConnect(N3_OUT, N2_A))
            => (status' = "running" /\ C1_Final')
      ]_vars

C1_Witness ==
    /\ C1_Final
    /\ status = "running"
    /\ IsLast("connect") /\ last.from = N3_OUT /\ last.to = N2_A
    /\ last.hit = Some(returned[1])

(* The last call is a connect whose two node names are keys of the graph,   *)
(* whose from slot is a declared output slot of the from node and whose to  *)
(* slot is a declared input slot of the to node.                            *)
LastConnectValid ==
    /\ IsLast("connect")
    /\ last.from.node_name \in DOMAIN nodes
    /\ last.to.node_name \in DOMAIN nodes
    /\ last.from.slot_name \in Outputs(nodes[last.from.node_name].kind)
    /\ last.to.slot_name \in Inputs(nodes[last.to.node_name].kind)

(* C2: right after a connect(from, to) with valid node names and slots has  *)
(* returned, the from node has the connection from.slot_name -> to and the  *)
(* input slot to.slot_name of the to node is sourced from `from`.           *)
C2_Theorem ==
    (LastConnectValid /\ status = "running") =>
        /\ has_connection(nodes[last.from.node_name], last.from.slot_name, last.to)
        /\ input_source(nodes[last.to.node_name], last.to.slot_name) = Some(last.from)

(* a valid connect into an input slot that another node fed before *)
C2_Witness ==
    /\ LastConnectValid
    /\ status = "running"
    /\ last.hit # None
    /\ last.hit # Some(last.from.node_name)

(* C3: when connect(from, to) returns and the input port `to` had a source  *)
(* `old` other than `from` before the call, the destination list of old's   *)
(* output slot on the node named old.node_name no longer contains `to`.     *)
C3_Original ==
    [][(Called("connect") /\ status' = "running") =>
          LET to == last'.to
              old == input_source(nodes[to.node_name], to.slot_name)
          IN  (old # None /\ old # Some(last'.from)) =>
                 ~has_connection(nodes'[old[1].node_name], old[1].slot_name, to)
      ]_vars

(* Where the port p is listed as a destination: node, output slot, index. *)
Listings(g, p) ==
    UNION {UNION {{<<m, o, j>> : j \in {i \in 1..Len(g[m].dst[o]) : g[m].dst[o][i] = p}}
                  : o \in Outputs(g[m].kind)}
           : m \in DOMAIN g}

(* C4: single source. In every state reached by add and successful connect *)
(* calls each input port of the graph is listed as a destination at most    *)
(* once: by at most one output slot of at most one node, once in its list.  *)
C4_Original ==
    status = "running" =>
        \A k \in DOMAIN nodes :
          \A s \in Inputs(nodes[k].kind) :
            Cardinality(Listings(nodes, Port(k, s))) <= 1

(* Every call so far was an add of a node of kind k. *)
OnlyAddsOf(k) ==
    /\ calls > 0
    /\ calls = Len(returned)
    /\ \A n \in DOMAIN nodes : nodes[n].kind = k

(* C5: adding instances of one kind K to the empty graph returns K, K1, K2, *)
(* ... in insertion order: the bare kind name first, then the kind name     *)
(* followed by the decimal numeral of the instance's position.              *)
C5_Theorem ==
    \A k \in KindNames :
      OnlyAddsOf(k) =>
        \A j \in 1..Len(returned) :
          returned[j] = (IF j = 1 THEN k ELSE k \o ToString(j - 1))

C5_Witness == OnlyAddsOf(MixRgba) /\ Len(returned) >= 3

(* C6: add(node) returns format_name(kind, i) for the smallest i >= 0 whose *)
(* name is not a key of the graph before the call, and stores the node      *)
(* under exactly that name.                                                 *)
C6_Theorem ==
    [][Called("add") =>
          \E i \in 0..Cardinality(DOMAIN nodes) :
            /\ last'.ret = format_name(last'.kind, i)
            /\ last'.ret \notin DOMAIN nodes
            /\ \A j \in 0..(i - 1) : format_name(last'.kind, j) \in DOMAIN nodes
            /\ DOMAIN nodes' = DOMAIN nodes \cup {last'.ret}
            /\ nodes'[last'.ret] = new(last'.kind, last'.mix)
            /\ returned' = Append(returned, last'.ret)
      ]_vars

(* an add whose kind name is taken by an instance of another kind *)
C6_Witness ==
    /\ IsLast("add")
    /\ last.kind = MixRgba1
    /\ last.ret = "MixRgba11"
    /\ nodes["MixRgba1"].kind = MixRgba

(* C7: after any sequence of add and connect calls the names returned by    *)
(* add are pairwise distinct and the key set of the graph is exactly the    *)
(* set of the names returned (no node is overwritten or removed); also when *)
(* kind names overlap.                                                      *)
C7_Theorem ==
    /\ \A i, j \in 1..Len(returned) : i # j => returned[i] # returned[j]
    /\ DOMAIN nodes = {returned[j] : j \in 1..Len(returned)}
    /\ Cardinality(DOMAIN nodes) = Len(returned)

(* kinds MixRgba and MixRgba1 both in the graph, the name MixRgba1 held by  *)
(* the second MixRgba instance, and a connect made last                     *)
C7_Witness ==
    /\ "MixRgba1" \in DOMAIN nodes
    /\ nodes["MixRgba1"].kind = MixRgba
    /\ \E n \in DOMAIN nodes : nodes[n].kind = MixRgba1
    /\ IsLast("connect")
    /\ status = "running"

(* C9: a connect(from, to) whose from.node_name or to.node_name is not a    *)
(* key of the graph panics: it does not return.                             *)
C9_Theorem ==
    (/\ IsLast("connect")
     /\ \/ last.from.node_name \notin DOMAIN nodes
        \/ last.to.node_name \notin DOMAIN nodes)
    => status = "panicked"

(* the from node is in the graph and the to node is not *)
C9_Witness ==
    /\ IsLast("connect")
    /\ last.from.node_name \in DOMAIN nodes
    /\ last.from.slot_name \in Outputs(nodes[last.from.node_name].kind)
    /\ last.to.node_name \notin DOMAIN nodes
    /\ status = "panicked"

-----------------------------------------------------------------------------
(* Claims about format_name (SpecFormat).                                   *)

(* C8: format_name(s, 0) is s and format_name(s, i) for i > 0 is s followed *)
(* by the decimal numeral of i; format_name("a", 0) = "a",                  *)
(* format_name("a", 1) = "a1", format_name("a", 2) = "a2".                  *)
C8_Theorem ==
    IsLast("format_name") =>
        /\ last.ret = (IF last.i = 0 THEN last.s ELSE last.s \o ToString(last.i))
        /\ (last.s = "a" /\ last.i = 0) => last.ret = "a"
        /\ (last.s = "a" /\ last.i = 1) => last.ret = "a1"
        /\ (last.s = "a" /\ last.i = 2) => last.ret = "a2"

C8_Witness == IsLast("format_name") /\ last.s = "a" /\ last.i = 12 /\ last.ret = "a12"

-----------------------------------------------------------------------------
(* Claims about one node (SpecNode).                                        *)

(* C10: connect_input with a slot that is not a declared input slot of the  *)
(* node's kind, and connect_output and remove_output with a slot that is    *)
(* not a declared output slot, panic and leave the node as it was.          *)
C10_Theorem ==
    [][(\/ Called("connect_input") /\ last'.slot \notin Inputs(node.kind)
        \/ Called("connect_output") /\ last'.slot \notin Outputs(node.kind)
        \/ Called("remove_output") /\ last'.slot \notin Outputs(node.kind))
       => (status' = "panicked" /\ node' = node)
      ]_vars

(* an output slot name passed to connect_input of a connected node *)
C10_Witness ==
    /\ IsLast("connect_input")
    /\ last.slot \in Outputs(node.kind)
    /\ status = "panicked"
    /\ \E s \in Outputs(node.kind) : node.dst[s] # <<>>
    /\ \E s \in Inputs(node.kind) : node.src[s] # None

-----------------------------------------------------------------------------
(* Claims about execute (SpecExec).                                         *)

(* C11: execute on the mix node returns None, without panicking, exactly    *)
(* when INPUT_A or INPUT_B is missing from the input map, whatever other    *)
(* entries the map has; it returns Some result when both are there.         *)
C11_Theorem ==
    IsLast("execute") =>
        /\ status = "running"
        /\ (INPUT_A \notin DOMAIN last.input \/ INPUT_B \notin DOMAIN last.input)
             => last.ret = None
        /\ (INPUT_A \in DOMAIN last.input /\ INPUT_B \in DOMAIN last.input)
             => last.ret # None

(* INPUT_B is missing, INPUT_A and another entry are there *)
C11_Witness ==
    /\ IsLast("execute")
    /\ DOMAIN last.input = {INPUT_A, OUTPUT_MIX}
    /\ last.input[INPUT_A] # <<>>
    /\ last.ret = None

(* The last call is an execute with INPUT_A and INPUT_B both supplied. *)
ExecutedBoth ==
    /\ IsLast("execute")
    /\ {INPUT_A, INPUT_B} \subseteq DOMAIN last.input

(* C12: with INPUT_A = a and INPUT_B = b both there, execute returns a map  *)
(* whose only key is OUTPUT_MIX and whose buffer holds at every paired      *)
(* position i the value a[i] * mix + b[i] * (1 - mix); the other entries of *)
(* the input map do not matter. In quarters: One * out[i] is                *)
(* a[i] * mix + b[i] * (One - mix). With mix = 0.5, a = [1, 0, 0, 1] and    *)
(* b = [0, 1, 0, 1] the buffer is [0.5, 0.5, 0, 1].                         *)
C12_Theorem ==
    ExecutedBoth =>
        LET a == last.input[INPUT_A]
            b == last.input[INPUT_B]
        IN  /\ last.ret # None
            /\ DOMAIN last.ret[1] = {OUTPUT_MIX}
            /\ LET out == last.ret[1][OUTPUT_MIX]
               IN  /\ \A i \in 1..Len(out) :
                        /\ i <= Len(a) /\ i <= Len(b)
                        /\ One * out[i] = a[i] * node.mix + b[i] * (One - node.mix)
                   /\ (node.mix = 2 /\ a = <<4, 0, 0, 4>> /\ b = <<0, 4, 0, 4>>)
                        => out = <<2, 2, 0, 4>>

(* the example of the claim, with a third entry in the input map *)
C12_Witness ==
    /\ ExecutedBoth
    /\ node.mix = 2
    /\ last.input[INPUT_A] = <<4, 0, 0, 4>>
    /\ last.input[INPUT_B] = <<0, 4, 0, 4>>
    /\ OUTPUT_MIX \in DOMAIN last.input
    /\ last.ret = Some([s \in {OUTPUT_MIX} |-> <<2, 2, 0, 4>>])

(* C13: with both inputs there, the OUTPUT_MIX buffer is exactly as long as *)
(* the shorter of INPUT_A and INPUT_B; unequal lengths give neither a panic *)
(* nor None, and an empty input gives Some result with an empty buffer.     *)
C13_Theorem ==
    ExecutedBoth =>
        LET la == Len(last.input[INPUT_A])
            lb == Len(last.input[INPUT_B])
        IN  /\ status = "running"
            /\ last.ret # None
            /\ Len(last.ret[1][OUTPUT_MIX]) = (IF la <= lb THEN la ELSE lb)
            /\ (la = 0 \/ lb = 0) => last.ret[1][OUTPUT_MIX] = <<>>

(* INPUT_A of length 4 and INPUT_B of length 2 *)
C13_Witness ==
    /\ ExecutedBoth
    /\ Len(last.input[INPUT_A]) = 4
    /\ Len(last.input[INPUT_B]) = 2
    /\ last.ret # None
    /\ Len(last.ret[1][OUTPUT_MIX]) = 2

-----------------------------------------------------------------------------
(* Claims about one node through the Node trait (SpecNode).                 *)

(* C14: remove_output(slot, d) on a declared output slot whose list does    *)
(* not hold d returns normally and changes nothing: the list keeps its      *)
(* length, elements and order, and the sources stay as they were.           *)
C14_Theorem ==
    [][(/\ Called("remove_output")
        /\ last'.slot \in Outputs(node.kind)
        /\ \A i \in 1..Len(node.dst[last'.slot]) : node.dst[last'.slot][i] # last'.port)
       => (status' = "running" /\ node' = node)
      ]_vars

(* a remove_output of a port that is not in the non-empty list *)
C14_Witness ==
    /\ IsLast("remove_output")
    /\ status = "running"
    /\ last.slot \in Outputs(node.kind)
    /\ node.dst[last.slot] # <<>>
    /\ \A i \in 1..Len(node.dst[last.slot]) : node.dst[last.slot][i] # last.port
    /\ \E s \in Inputs(node.kind) : node.src[s] # None

(* C15: has_connection(slot, d) is true exactly when slot is a declared     *)
(* output slot of the node and the slot's list holds a port equal to d in   *)
(* both fields; for a slot that is not declared it is false, and the call   *)
(* never panics.                                                            *)
C15_Theorem ==
    IsLast("has_connection") =>
        /\ status = "running"
        /\ last.ret <=>
             /\ last.slot \in Outputs(node.kind)
             /\ \E i \in 1..Len(node.dst[last.slot]) :
                  /\ node.dst[last.slot][i].node_name = last.port.node_name
                  /\ node.dst[last.slot][i].slot_name = last.port.slot_name

(* the list holds a port with d's node name and another slot name, and not d *)
C15_Witness ==
    /\ IsLast("has_connection")
    /\ last.slot \in Outputs(node.kind)
    /\ ~last.ret
    /\ \E i \in 1..Len(node.dst[last.slot]) :
         /\ node.dst[last.slot][i].node_name = last.port.node_name
         /\ node.dst[last.slot][i].slot_name # last.port.slot_name

(* C16: input_source(slot) returns the port most recently passed to         *)
(* connect_input for that slot: right after a connect_input(slot, p) it is  *)
(* Some(p), and no call other than a connect_input on the slot changes what *)
(* it returns. It is None for every slot of a new node and for every name   *)
(* that is not an input slot of the node, and it never panics.              *)
C16_Theorem ==
    [][/\ (IsLast("connect_input") /\ Called("input_source") /\ last'.slot = last.slot)
            => last'.ret = Some(last.port)
       /\ (IsLast("input_source") /\ Called("input_source") /\ last'.slot = last.slot)
            => last'.ret = last.ret
       /\ (calls = 0 /\ Called("input_source")) => last'.ret = None
       /\ (Called("input_source") /\ last'.slot \notin Inputs(node.kind))
            => last'.ret = None
       /\ Called("input_source") => status' = "running"
       /\ \A s \in SlotNames :
            (~(Called("connect_input") /\ last'.slot = s /\ status' = "running"))
              => input_source(node', s) = input_source(node, s)
      ]_vars

(* both input slots connected, to different ports; INPUT_A is asked *)
C16_Witness ==
    /\ IsLast("input_source")
    /\ node.kind = MixRgba
    /\ last.slot = INPUT_A
    /\ node.src[INPUT_B] = Some(Port(MixRgba, OUTPUT_MIX))
    /\ last.ret = Some(Port(MixRgba1, INPUT_A))

(* C17: connect_input(slot, p) on a declared input slot returns normally    *)
(* and sets the slot's source to p whatever it was; the other input slot,   *)
(* the destination lists and the kind and mix of the node stay as they      *)
(* were.                                                                    *)
C17_Theorem ==
    [][(Called("connect_input") /\ last'.slot \in Inputs(node.kind))
       => /\ status' = "running"
          /\ node'.src[last'.slot] = Some(last'.port)
          /\ \A s \in Inputs(node.kind) \ {last'.slot} : node'.src[s] = node.src[s]
          /\ DOMAIN node'.src = DOMAIN node.src
          /\ node'.dst = node.dst
          /\ node'.kind = node.kind
          /\ node'.mix = node.mix
      ]_vars

(* INPUT_A connected after INPUT_B and OUTPUT_MIX, to another port *)
C17_Witness ==
    /\ IsLast("connect_input")
    /\ status = "running"
    /\ last.slot = INPUT_A
    /\ node.kind = MixRgba
    /\ node.src[INPUT_B] # None
    /\ node.src[INPUT_B] # node.src[INPUT_A]
    /\ node.dst[OUTPUT_MIX] # <<>>

(* C18: connect_output(slot, d) on a declared output slot returns normally  *)
(* and appends d at the end: the list before is a prefix of the list after, *)
(* the list is one longer, and nothing is deduplicated.                     *)
C18_Theorem ==
    [][(Called("connect_output") /\ last'.slot \in Outputs(node.kind))
       => LET old == node.dst[last'.slot]
              now == node'.dst[last'.slot]
          IN  /\ status' = "running"
              /\ Len(now) = Len(old) + 1
              /\ SubSeq(now, 1, Len(old)) = old
              /\ now[Len(now)] = last'.port
      ]_vars

(* the same destination connected twice is held twice *)
C18_Witness ==
    /\ IsLast("connect_output")
    /\ status = "running"
    /\ last.slot \in Outputs(node.kind)
    /\ node.dst[last.slot] = <<last.port, last.port>>

-----------------------------------------------------------------------------
(* Claims about fan-out and cycles (Spec).                                  *)

(* The list with the occurrences of port p left out *)
Without(seq, p) == SelectSeq(seq, LAMBDA q : q # p)

(* C19: a connect(from, to2) removes no destination other than to2 from any *)
(* list of any node: every list keeps its other destinations, in order.     *)
(* When connect(from, to1) and then connect(from, to2) with to1 # to2 have  *)
(* both returned, the list of `from` holds to1 and, after it, to2, and the  *)
(* input slots to1 and to2 both have `from` as their source.                *)
C19_Theorem ==
    [][/\ Called("connect") =>
            /\ DOMAIN nodes' = DOMAIN nodes
            /\ \A k \in DOMAIN nodes : \A s \in Outputs(nodes[k].kind) :
                 Without(nodes'[k].dst[s], last'.to) = Without(nodes[k].dst[s], last'.to)
       /\ (/\ IsLast("connect") /\ status = "running"
           /\ Called("connect") /\ status' = "running"
           /\ last'.from = last.from
           /\ last'.to # last.to)
          => LET lst == nodes'[last.from.node_name].dst[last.from.slot_name]
             IN  /\ \E i \in 1..Len(lst) : \E j \in (i + 1)..Len(lst) :
                      lst[i] = last.to /\ lst[j] = last'.to
                 /\ input_source(nodes'[last.to.node_name], last.to.slot_name)
                      = Some(last.from)
                 /\ input_source(nodes'[last'.to.node_name], last'.to.slot_name)
                      = Some(last'.from)
      ]_vars

(* one output feeding both input slots of another node, by two connects *)
C19_Witness ==
    /\ IsLast("connect")
    /\ status = "running"
    /\ last.from.node_name \in DOMAIN nodes
    /\ last.from.node_name # last.to.node_name
    /\ last.from.slot_name = OUTPUT_MIX
    /\ nodes[last.from.node_name].kind = MixRgba
    /\ nodes[last.from.node_name].dst[OUTPUT_MIX]
         = <<Port(last.to.node_name, INPUT_A), Port(last.to.node_name, INPUT_B)>>
    /\ nodes[last.to.node_name].src[INPUT_A] = Some(last.from)
    /\ nodes[last.to.node_name].src[INPUT_B] = Some(last.from)

(* Some node of the graph is reached from one of its own destinations. *)
Cyclic(g) == \E k \in DOMAIN g : \E m \in Successors(g, k) : Reaches(g, m, k)

(* C20: there is no cycle detection. A connect with valid node names and    *)
(* slots whose `to` node already reaches its `from` node (the same node for *)
(* a self-loop) returns normally and records the connection on both sides,  *)
(* so the topology then holds a cycle.                                      *)
C20_Theorem ==
    [][(/\ Called("connect")
        /\ last'.from.node_name \in DOMAIN nodes
        /\ last'.to.node_name \in DOMAIN nodes
        /\ last'.from.slot_name \in Outputs(nodes[last'.from.node_name].kind)
        /\ last'.to.slot_name \in Inputs(nodes[last'.to.node_name].kind)
        /\ Reaches(nodes, last'.to.node_name, last'.from.node_name))
       => /\ status' = "running"
          /\ has_connection(nodes'[last'.from.node_name], last'.from.slot_name, last'.to)
          /\ input_source(nodes'[last'.to.node_name], last'.to.slot_name) = Some(last'.from)
          /\ Cyclic(nodes')
      ]_vars

(* a self-loop OUTPUT_MIX -> INPUT_A on the first node and a two-node cycle *)
(* through the second, the last connect closing one of them                 *)
C20_Witness ==
    /\ IsLast("connect")
    /\ status = "running"
    /\ Len(returned) = 2
    /\ LET n1 == returned[1]
           n2 == returned[2]
       IN  /\ nodes[n1].kind = MixRgba /\ nodes[n2].kind = MixRgba
           /\ has_connection(nodes[n1], OUTPUT_MIX, Port(n1, INPUT_A))
           /\ nodes[n1].src[INPUT_A] = Some(Port(n1, OUTPUT_MIX))
           /\ has_connection(nodes[n1], OUTPUT_MIX, Port(n2, INPUT_A))
           /\ nodes[n2].src[INPUT_A] = Some(Port(n1, OUTPUT_MIX))
           /\ has_connection(nodes[n2], OUTPUT_MIX, Port(n1, INPUT_B))
           /\ nodes[n1].src[INPUT_B] = Some(Port(n2, OUTPUT_MIX))
           /\ last.to.node_name = n1

-----------------------------------------------------------------------------
(* Further claims about one node (SpecNode).                                *)

(* C21: execute changes neither topology nor configuration: whatever the    *)
(* input map, and whether the result is Some or None, the node's sources,   *)
(* destination lists and mix factor are after execute what they were        *)
(* before, and the call does not panic.                                     *)
C21_Theorem ==
    [][Called("execute")
       => /\ node'.src = node.src
          /\ node'.dst = node.dst
          /\ node'.mix = node.mix
          /\ node'.kind = node.kind
          /\ status' = "running"
      ]_vars

(* execute with both inputs on a node with a source and a destination *)
C21_Witness ==
    /\ IsLast("execute")
    /\ last.ret # None
    /\ node.src[INPUT_A] # None
    /\ node.dst[OUTPUT_MIX] # <<>>

-----------------------------------------------------------------------------
(* Further claims about the graph (Spec).                                   *)

AllMix(g) == \A k \in DOMAIN g : g[k].kind = MixRgba

(* C23: bidirectional consistency. In every state reached from the empty    *)
(* graph by adds of new mix nodes and connects that returned, the input     *)
(* slot s of node n has the source (m, o) exactly when the destination list *)
(* of output slot o of node m holds the port (n, s); every source and every *)
(* destination names a node of the graph.                                   *)
C23_Theorem ==
    (status = "running" /\ AllMix(nodes)) =>
        /\ \A n \in DOMAIN nodes : \A s \in Inputs(nodes[n].kind) :
             /\ nodes[n].src[s] # None => nodes[n].src[s][1].node_name \in DOMAIN nodes
             /\ \A m \in DOMAIN nodes : \A o \in Outputs(nodes[m].kind) :
                  (nodes[n].src[s] = Some(Port(m, o)))
                    <=> (\E i \in 1..Len(nodes[m].dst[o]) : nodes[m].dst[o][i] = Port(n, s))
        /\ \A m \in DOMAIN nodes : \A o \in Outputs(nodes[m].kind) :
             \A i \in 1..Len(nodes[m].dst[o]) :
               /\ nodes[m].dst[o][i].node_name \in DOMAIN nodes
               /\ nodes[m].dst[o][i].slot_name
                    \in Inputs(nodes[nodes[m].dst[o][i].node_name].kind)

(* three mix nodes; an input that was fed by one node is now fed by another *)
C23_Witness ==
    /\ status = "running"
    /\ AllMix(nodes)
    /\ Cardinality(DOMAIN nodes) = 3
    /\ IsLast("connect")
    /\ last.hit # None
    /\ last.hit # Some(last.from.node_name)
    /\ \E k \in DOMAIN nodes : Len(nodes[k].dst[OUTPUT_MIX]) = 2

(* How often the port p occurs in the list *)
Occurrences(seq, p) == Cardinality({i \in 1..Len(seq) : seq[i] = p})

(* C24: connect is idempotent. When connect(from, to) has returned and is   *)
(* called again with the same two ports, the second call returns and leaves *)
(* the graph exactly as the first left it (sources and destination lists,   *)
(* order included), and `to` occurs exactly once in the list of `from`.     *)
C24_Theorem ==
    [][(/\ IsLast("connect") /\ status = "running"
        /\ Called("connect")
        /\ last'.from = last.from
        /\ last'.to = last.to)
       => /\ status' = "running"
          /\ nodes' = nodes
          /\ Occurrences(nodes'[last.from.node_name].dst[last.from.slot_name], last.to) = 1
      ]_vars

(* a connect of a port that the from node listed already, before another *)
C24_Witness ==
    /\ IsLast("connect")
    /\ status = "running"
    /\ last.hit = Some(last.from.node_name)
    /\ LET lst == nodes[last.from.node_name].dst[last.from.slot_name]
       IN  /\ Len(lst) = 2
           /\ lst[2] = last.to
           /\ lst[1] # last.to

(* C25: frame of a connect(from, to) that returns. The set of node names,   *)
(* the kind and mix of every node, every input slot other than `to`, and    *)
(* every destination list other than the list of from.slot_name on the node *)
(* from.node_name and on the node the removal scan stopped at are           *)
(* unchanged; in every list the entries other than `to` keep their order.   *)
C25_Theorem ==
    [][(Called("connect") /\ status' = "running") =>
         LET from == last'.from
             to == last'.to
         IN  /\ DOMAIN nodes' = DOMAIN nodes
             /\ \A k \in DOMAIN nodes :
                  /\ nodes'[k].kind = nodes[k].kind
                  /\ nodes'[k].mix = nodes[k].mix
                  /\ DOMAIN nodes'[k].src = DOMAIN nodes[k].src
                  /\ DOMAIN nodes'[k].dst = DOMAIN nodes[k].dst
                  /\ \A s \in Inputs(nodes[k].kind) :
                       (k # to.node_name \/ s # to.slot_name)
                         => nodes'[k].src[s] = nodes[k].src[s]
                  /\ \A o \in Outputs(nodes[k].kind) :
                       /\ (~(o = from.slot_name
                             /\ (k = from.node_name \/ last'.hit = Some(k))))
                            => nodes'[k].dst[o] = nodes[k].dst[o]
                       /\ Without(nodes'[k].dst[o], to) = Without(nodes[k].dst[o], to)
      ]_vars

(* the scan stopped at a node other than `from`; a third node of three has  *)
(* a destination, the other input of the to node has a source               *)
C25_Witness ==
    /\ IsLast("connect")
    /\ status = "running"
    /\ last.hit # None
    /\ last.hit # Some(last.from.node_name)
    /\ \E k \in DOMAIN nodes \ {last.from.node_name, last.hit[1]} :
         \E o \in Outputs(nodes[k].kind) : nodes[k].dst[o] # <<>>
    /\ \E s \in Inputs(nodes[last.to.node_name].kind) \ {last.to.slot_name} :
         nodes[last.to.node_name].src[s] # None

(* C26: frame of add. add(node) grows the graph by exactly one entry, the   *)
(* returned name, and every name that was there is mapped to the same node  *)
(* with the same sources, destination lists and configuration; a node built *)
(* by the kind's constructor is stored with every input slot unconnected    *)
(* and every destination list empty.                                        *)
C26_Theorem ==
    [][Called("add") =>
         LET nm == last'.ret
         IN  /\ nm \notin DOMAIN nodes
             /\ DOMAIN nodes' = DOMAIN nodes \cup {nm}
             /\ Cardinality(DOMAIN nodes') = Cardinality(DOMAIN nodes) + 1
             /\ \A k \in DOMAIN nodes :
                  /\ nodes'[k].src = nodes[k].src
                  /\ nodes'[k].dst = nodes[k].dst
                  /\ nodes'[k].kind = nodes[k].kind
                  /\ nodes'[k].mix = nodes[k].mix
             /\ nodes'[nm].kind = last'.kind
             /\ nodes'[nm].mix = last'.mix
             /\ DOMAIN nodes'[nm].src = Inputs(last'.kind)
             /\ DOMAIN nodes'[nm].dst = Outputs(last'.kind)
             /\ \A s \in Inputs(last'.kind) : nodes'[nm].src[s] = None
             /\ \A o \in Outputs(last'.kind) : nodes'[nm].dst[o] = <<>>
             /\ status' = status
      ]_vars

(* a third node added to two connected ones *)
C26_Witness ==
    /\ IsLast("add")
    /\ Cardinality(DOMAIN nodes) = 3
    /\ \E k \in DOMAIN nodes \ {last.ret} :
         /\ \E o \in Outputs(nodes[k].kind) : nodes[k].dst[o] # <<>>
         /\ \E s \in Inputs(nodes[k].kind) : nodes[k].src[s] # None
    /\ \A s \in Inputs(last.kind) : nodes[last.ret].src[s] = None

(* The connect just called names a `to` port that step three cannot use:    *)
(* its node is not in the graph or its slot is not an input slot of it.     *)
ToUnusable ==
    /\ Called("connect")
    /\ last'.from.node_name \in DOMAIN nodes
    /\ \/ last'.to.node_name \notin DOMAIN nodes
       \/ last'.to.slot_name \notin Inputs(nodes[last'.to.node_name].kind)

(* At the panic the node the scan stopped at (when it is not the from node  *)
(* itself) has lost `to`, and the list of `from` holds `to`.                *)
StepsOneAndTwoDone ==
    /\ status' = "panicked"
    /\ (last'.hit # None /\ last'.hit # Some(last'.from.node_name))
         => ~has_connection(nodes'[last'.hit[1]], last'.from.slot_name, last'.to)
    /\ has_connection(nodes'[last'.from.node_name], last'.from.slot_name, last'.to)

(* C27 as stated: whenever from.node_name is in the graph and to.node_name  *)
(* is missing or to.slot_name is not a declared input slot, connect panics  *)
(* with the removal done and `to` in the list of `from`.                    *)
C27_Original == [][ToUnusable => StepsOneAndTwoDone]_vars

(* C27: connect does the removal scan, then connect_output on the from      *)
(* node, then connect_input on the to node. When from.node_name is in the   *)
(* graph and from.slot_name is a declared output slot of it, while          *)
(* to.node_name is missing or to.slot_name is not a declared input slot,    *)
(* connect panics in the third step: the node the scan stopped at has lost  *)
(* `to`, the list of `from` holds `to` as its last entry, and no source has *)
(* changed.                                                                 *)
C27_Theorem ==
    [][(/\ ToUnusable
        /\ last'.from.slot_name \in Outputs(nodes[last'.from.node_name].kind))
       => /\ StepsOneAndTwoDone
          /\ LET lst == nodes'[last'.from.node_name].dst[last'.from.slot_name]
             IN  lst[Len(lst)] = last'.to
          /\ \A k \in DOMAIN nodes : nodes'[k].src = nodes[k].src
      ]_vars

(* a panicked connect to a port of a missing node, listed by `from` after   *)
(* an earlier destination                                                   *)
C27_Witness ==
    /\ IsLast("connect")
    /\ status = "panicked"
    /\ last.to.node_name \notin DOMAIN nodes
    /\ last.from.node_name \in DOMAIN nodes
    /\ last.from.slot_name \in Outputs(nodes[last.from.node_name].kind)
    /\ LET lst == nodes[last.from.node_name].dst[last.from.slot_name]
       IN  Len(lst) = 2 /\ lst[2] = last.to

-----------------------------------------------------------------------------
(* Further claims about one node (SpecNode).                                *)

(* The positions of the list that do not hold p, in increasing order *)
RECURSIVE KeptPositions(_, _, _)
KeptPositions(seq, p, i) ==
    IF i > Len(seq) THEN <<>>
    ELSE (IF seq[i] = p THEN <<>> ELSE <<i>>) \o KeptPositions(seq, p, i + 1)

(* C28: remove_output(slot, d) on a declared output slot returns normally   *)
(* and takes every occurrence of d out of the list, not the first only: the *)
(* list after is the list before at the positions that did not hold d, in   *)
(* their order. Afterwards has_connection(slot, d) is false; the sources    *)
(* are as before.                                                           *)
C28_Theorem ==
    [][(Called("remove_output") /\ last'.slot \in Outputs(node.kind))
       => LET old == node.dst[last'.slot]
              now == node'.dst[last'.slot]
              pos == KeptPositions(old, last'.port, 1)
          IN  /\ status' = "running"
              /\ \A i \in 1..Len(now) : now[i] # last'.port
              /\ Len(now) = Len(pos)
              /\ \A i \in 1..Len(now) : now[i] = old[pos[i]]
              /\ ~has_connection(node', last'.slot, last'.port)
              /\ node'.src = node.src
      ]_vars

(* after four calls, the last a remove_output of a port, the list holds one *)
(* other port                                                               *)
C28_Witness ==
    /\ IsLast("remove_output")
    /\ status = "running"
    /\ calls = 4
    /\ last.slot \in Outputs(node.kind)
    /\ Len(node.dst[last.slot]) = 1
    /\ node.dst[last.slot][1] # last.port
    /\ \A s \in Inputs(node.kind) : node.src[s] = None

-----------------------------------------------------------------------------
(* Further claims about the graph (Spec).                                   *)

(* C29: the graph does not depend on the order in which the removal scan    *)
(* visits the nodes. In every state reached from the empty graph by adds of *)
(* newly constructed nodes and connects, at most one node matches the       *)
(* scan's condition for the ports of the next connect, and whichever        *)
(* matching node the scan stops at, connect leaves the same graph and ends  *)
(* the same way.                                                            *)
C29_Theorem ==
    [][Called("connect") =>
         /\ Cardinality(ScanMatches(nodes, last'.from, last'.to)) <= 1
         /\ \A h \in ScanChoices(nodes, last'.from, last'.to) :
              /\ connect(nodes, last'.from, last'.to, h).nodes = nodes'
              /\ connect(nodes, last'.from, last'.to, h).ok = (status' = "running")
      ]_vars

(* `to` is listed by two nodes, under OUTPUT_MIX and under OUTPUT_ALT, and  *)
(* the scan of the last connect stopped at one of them                      *)
C29_Witness ==
    /\ IsLast("connect")
    /\ status = "running"
    /\ last.hit # None
    /\ Cardinality({k \in DOMAIN nodes :
                      \E o \in Outputs(nodes[k].kind) : has_connection(nodes[k], o, last.to)}) = 2

-----------------------------------------------------------------------------
(* The two implementations side by side (SpecPair).                         *)

(* C30: AlphaOver and MixRgba are equivalent implementations of Node.       *)
(* Built with the same mix factor and driven by the same connect_input,     *)
(* connect_output, remove_output, input_source, output_destinations,        *)
(* has_connection and execute calls, they return the same results, panic on *)
(* the same calls, and hold the same sources, destination lists and mix;    *)
(* the kind names they report differ.                                       *)
C30_Theorem ==
    /\ ~IsLast("new") => (last.ok = last.aok /\ last.ret = last.aret)
    /\ node.src[INPUT_A] = alpha.input_a_source
    /\ node.src[INPUT_B] = alpha.input_b_source
    /\ node.dst[OUTPUT_MIX] = alpha.mix_destinations
    /\ node.mix = alpha.mix
    /\ DOMAIN node.src = {INPUT_A, INPUT_B}
    /\ DOMAIN node.dst = {OUTPUT_MIX}
    /\ name(node) = MixRgba
    /\ alpha_name(alpha) = "AlphaOver"

(* both nodes connected on INPUT_B and OUTPUT_MIX, then asked for the       *)
(* source of INPUT_B                                                        *)
C30_Witness ==
    /\ IsLast("input_source")
    /\ last.slot = INPUT_B
    /\ last.aret # None
    /\ alpha.input_a_source = None
    /\ alpha.mix_destinations # <<>>

====
